---- MODULE Spec2Model ----
\* wrapped_mono: a wrapper layer over the Mono embedding API.
\* The model covers src/domain.rs (Domain), src/jit.rs (init, cleanup) and
\* src/class.rs (Class, ClassField).  The foreign runtime is the environment:
\* it is modelled by the operators named mono_*, the wrapper code by the
\* operators and actions named after the Rust functions.
EXTENDS Integers, Sequences, FiniteSets, TLC

\* ----------------------------------------------------------------- bounds
NumClasses == 3     \* classes of the loaded image: pointers 1..NumClasses
MaxItems == 2       \* longest collection (fields, methods, ...) of a class
NumDomains == 2     \* domain pointers the runtime can hand out: 1..NumDomains

\* ------------------------------------------------------------ foreign data
\* core::ptr::null_mut()
Null == 0

Classes == 1..NumClasses
DomPtrs == 1..NumDomains
\* the domain mono_jit_init returns
RootDomain == 1

\* Field and method descriptors are pointers of their own; descriptor j of
\* class c is c * (MaxItems + 1) + j, so that no two collide and none is Null.
ItemPtr(c, j) == c * (MaxItems + 1) + j

RECURSIVE SeqOf(_, _, _)
\* <<f(from), ..., f(to)>> for the pointer family ItemPtr(c, _)
SeqOf(c, from, to) ==
    IF from > to THEN <<>> ELSE <<ItemPtr(c, from)>> \o SeqOf(c, from + 1, to)

\* The metadata tables of the loaded image, in metadata order.
FieldCount(c) == (c - 1) % (MaxItems + 1)
MethodCount(c) == c % (MaxItems + 1)
FieldsOf(c) == SeqOf(c, 1, FieldCount(c))
MethodsOf(c) == SeqOf(c, 1, MethodCount(c))

RECURSIVE Descending(_, _)
Descending(hi, n) ==
    IF n = 0 \/ hi < 1 THEN <<>> ELSE <<hi>> \o Descending(hi - 1, n - 1)
RECURSIVE Ascending(_, _)
Ascending(lo, n) ==
    IF n = 0 \/ lo > NumClasses THEN <<>> ELSE <<lo>> \o Ascending(lo + 1, n - 1)

\* interfaces of c: the classes below it, nearest first; nested types of c:
\* the classes above it, in declaration order
InterfacesOf(c) == Descending(c - 1, MaxItems)
NestedTypesOf(c) == Ascending(c + 1, MaxItems)

AllFields == UNION {{ItemPtr(c, j) : j \in 1..FieldCount(c)} : c \in Classes}
FieldIndex(f) == f % (MaxItems + 1)

\* The type system of the image: class c derives from class c - 1, class 1
\* is the root.  An object of type other can be assigned to self iff self is
\* other or one of its ancestors (see mono_class_is_assignable_from below).
\* the highest class of the image is an array type, of the root class
IsArray(c) == c = NumClasses
RankOf(c) == IF IsArray(c) THEN 1 ELSE 0

\* Foreign strings are NUL-terminated byte arrays owned by the runtime.
\* 65 'A', 70 'F', 78 'N', 80 'P', 88 'X'; 195 179 is U+00F3; 255 is never
\* a byte of UTF-8 text.
ClassNameBytes(c) ==
    CASE c % 3 = 1 -> <<65>>
      [] c % 3 = 2 -> <<195, 179>>
      [] OTHER     -> <<65, 255>>
NamespaceBytes(c) == IF c % 2 = 1 THEN <<>> ELSE <<78>>
FieldNameBytes(f) ==
    IF FieldIndex(f) % 2 = 1 THEN <<70, 48 + FieldIndex(f)>> ELSE <<70, 255>>

\* string ids of the runtime-owned name strings
ClassNameStr(c) == <<"class", c>>
NamespaceStr(c) == <<"namespace", c>>
FieldNameStr(f) == <<"field", f>>
StrBytes(id) ==
    CASE id[1] = "class"     -> ClassNameBytes(id[2])
      [] id[1] = "namespace" -> NamespaceBytes(id[2])
      [] OTHER               -> FieldNameBytes(id[2])

\* Rust strings the caller passes in (&str: any bytes of valid UTF-8, a NUL
\* included).  Field names: "", "F1", "X", "F\0"; paths, directories, file
\* names, domain names and versions: "P", "X", "P\0".
FieldNameArgs == {<<>>, <<70, 49>>, <<88>>, <<70, 0>>}
Strs == {<<80>>, <<88>>, <<80, 0>>}
\* the one path at which an assembly exists
AssemblyPath == <<80>>
AssemblyPtr == 1

\* ------------------------------------------------------- foreign runtime
\* The cursor protocol of mono_class_get_fields / _methods / _nested_types /
\* _interfaces: the cursor is the position of the last item handed out, a
\* null cursor starts the walk, and a null item signals exhaustion.
mono_class_get_next(items, cursor) ==
    IF cursor < Len(items)
    THEN [item |-> items[cursor + 1], cursor |-> cursor + 1]
    ELSE [item |-> Null, cursor |-> cursor]

mono_class_num_fields(c) == Len(FieldsOf(c))
mono_class_num_methods(c) == Len(MethodsOf(c))

\* the runtime's assignability check: can an object of type oklass be
\* assigned to klass
mono_class_is_assignable_from(klass, oklass) == klass <= oklass
mono_class_implements_interface(klass, iface) ==
    \E i \in 1..Len(InterfacesOf(klass)) : InterfacesOf(klass)[i] = iface

mono_class_get_rank(c) == RankOf(c)

\* strcmp of the C string against the names of the fields of the class
mono_class_get_field_from_name(c, cbytes) ==
    LET hits == {i \in 1..Len(FieldsOf(c)) : FieldNameBytes(FieldsOf(c)[i]) = cbytes}
    IN  IF hits = {} THEN Null
        ELSE FieldsOf(c)[CHOOSE i \in hits : \A k \in hits : i <= k]

mono_domain_assembly_open(path) ==
    IF path = AssemblyPath THEN AssemblyPtr ELSE Null

\* longest argument list handed to jit::exec
MaxArgs == 4
\* "one", "two" and "a\0"
ArgStrs == {<<111, 110, 101>>, <<116, 119, 111>>, <<97, 0>>}
\* ["one", "two", "three", "four"]
FourArgs == <<<<111, 110, 101>>, <<116, 119, 111>>, <<116, 104, 114, 101, 101>>,
              <<102, 111, 117, 114>>>>
\* the argument lists tried: every list of these strings, and FourArgs
ArgLists == UNION {[1..n -> ArgStrs] : n \in 0..MaxArgs} \cup {FourArgs}
\* the managed method the entry point calls with its argument count
PassArgCount == "Test::PassArgCount"

\* the one loaded image
ImagePtr == 1
\* Namespaces and class names the caller passes in: "", "N", "N\0" and
\* "A", U+00F3, "X", "A\0".
NamespaceArgs == {<<>>, <<78>>, <<78, 0>>}
ClassNameArgs == {<<65>>, <<195, 179>>, <<88>>, <<65, 0>>}

\* mono_class_from_name: the class of the image with this namespace and
\* name (the metadata tables hold one at most), or null
mono_class_from_name(image, nspace, name) ==
    LET hits == {c \in Classes : NamespaceBytes(c) = nspace /\ ClassNameBytes(c) = name}
    IN  IF image = ImagePtr /\ hits # {} THEN CHOOSE c \in hits : TRUE ELSE Null

\* ------------------------------------------------------- wrapper helpers
None == [some |-> FALSE, ptr |-> Null]
Some(p) == [some |-> TRUE, ptr |-> p]

\* Class::from_ptr, ClassField::from_ptr (the same body)
Class_from_ptr(class_ptr) ==
    IF class_ptr = Null THEN None ELSE Some(class_ptr)
ClassField_from_ptr(cf_ptr) ==
    IF cf_ptr = Null THEN None ELSE Some(cf_ptr)
\* Domain::from_ptr wraps whatever it is given
Domain_from_ptr(ptr) == [ptr |-> ptr]

HasNul(s) == \E i \in 1..Len(s) : s[i] = 0
\* CString::new(s): an error for a string with a NUL byte in it
CString_new(s) ==
    IF HasNul(s) THEN [ok |-> FALSE, bytes |-> <<>>] ELSE [ok |-> TRUE, bytes |-> s]

RECURSIVE strlen(_)
\* the bytes before the first NUL of a NUL-terminated array
strlen(mem) == IF mem[1] = 0 THEN 0 ELSE 1 + strlen(Tail(mem))
\* CString::from_raw(ptr): takes the bytes up to the terminator
CString_from_raw(mem) == SubSeq(mem, 1, strlen(mem))

IsCont(b) == b >= 128 /\ b <= 191
RECURSIVE ValidUtf8(_)
\* core::str::from_utf8's acceptance: well-formed UTF-8 only
ValidUtf8(bs) ==
    IF bs = <<>> THEN TRUE
    ELSE LET b == bs[1]
             n == Len(bs)
         IN  IF b < 128 THEN ValidUtf8(Tail(bs))
             ELSE IF b >= 194 /\ b <= 223
             THEN n >= 2 /\ IsCont(bs[2]) /\ ValidUtf8(SubSeq(bs, 3, n))
             ELSE IF b >= 224 /\ b <= 239
             THEN /\ n >= 3
                  /\ IsCont(bs[2]) /\ IsCont(bs[3])
                  /\ (b = 224 => bs[2] >= 160)
                  /\ (b = 237 => bs[2] <= 159)
                  /\ ValidUtf8(SubSeq(bs, 4, n))
             ELSE IF b >= 240 /\ b <= 244
             THEN /\ n >= 4
                  /\ IsCont(bs[2]) /\ IsCont(bs[3]) /\ IsCont(bs[4])
                  /\ (b = 240 => bs[2] >= 144)
                  /\ (b = 244 => bs[2] <= 143)
                  /\ ValidUtf8(SubSeq(bs, 5, n))
             ELSE FALSE
\* CStr::to_str: the same bytes as a &str, or a Utf8Error
to_str(bytes) ==
    IF ValidUtf8(bytes) THEN [ok |-> TRUE, s |-> bytes] ELSE [ok |-> FALSE, s |-> <<>>]

\* a push that puts the new item first
vec_push_front(res, item) == <<item>> \o res
\* res.push(item) of the enumerating accessors
vec_push(res, item) == Append(res, item)

\* a turn that takes a null item under a still-null cursor for "not started
\* yet" and asks again
while_let_turn_retry(op, items, gptr, res) ==
    LET r == mono_class_get_next(items, gptr)
        h == IF op = "get_fields" THEN ClassField_from_ptr(r.item)
             ELSE Class_from_ptr(r.item)
    IN  [gptr |-> r.cursor,
         res  |-> IF h.some THEN vec_push(res, h.ptr) ELSE res,
         done |-> ~h.some /\ r.cursor # Null]
\* One turn of `while let Some(x) = from_ptr(next(self, &mut gptr))`.
\* get_methods wraps with Method::from_ptr, of another file; it is read as
\* the null check of Class::from_ptr.
while_let_turn(op, items, gptr, res) ==
    LET r == mono_class_get_next(items, gptr)
        h == IF op = "get_fields" THEN ClassField_from_ptr(r.item)
             ELSE Class_from_ptr(r.item)
    IN  [gptr |-> r.cursor,
         res  |-> IF h.some THEN vec_push(res, h.ptr) ELSE res,
         done |-> ~h.some]

\* ----------------------------------------------------------------- state
VARIABLES
    rt,         \* the foreign runtime: "Uninitialized", "Running", "ShutDown"
    domStatus,  \* runtime side of each domain pointer: "unused", "live", "freed"
    held,       \* pointers wrapped by the Domain handles the caller holds
    strFreed,   \* runtime-owned name strings that have been deallocated
    pc,         \* "idle", "enum" (inside an enumerating accessor), "panicked"
    enum,       \* the locals of the running enumerating accessor
    calls,      \* foreign calls issued by the current / last operation
    ret,        \* what the last operation returned
    asm,        \* the Assembly handle the caller keeps (ptr Null: none)
    icalls,     \* the runtime's internal-call table: registered signatures
    exec        \* the jit::exec call in progress

execVars == <<asm, icalls, exec>>
vars == <<rt, domStatus, held, strFreed, pc, enum, calls, ret, asm, icalls, exec>>

NoEnum == [op |-> "none", self |-> Null, gptr |-> Null, res |-> <<>>]
NoRet == [op |-> "none", kind |-> "none"]
NoAsm == [ptr |-> Null, dom |-> Null]
NoExec == [args |-> <<>>, argc |-> 0, argv |-> <<>>, seen |-> <<>>, res |-> 0, done |-> FALSE]

\* a foreign call as seen at the C boundary: the function, the runtime state
\* it found, what the domain pointer it was given points at ("none" when it
\* takes no domain), and the enumeration cursor passed in (Null when none)
Call(fn, dom, cursor) ==
    [fn |-> fn, rtAt |-> rt, dom |-> dom, cursor |-> cursor]

Init ==
    /\ rt = "Uninitialized"
    /\ domStatus = [d \in DomPtrs |-> "unused"]
    /\ held = {}
    /\ strFreed = {}
    /\ pc = "idle"
    /\ enum = NoEnum
    /\ calls = <<>>
    /\ ret = NoRet
    /\ asm = NoAsm
    /\ icalls = {}
    /\ exec = NoExec

\* the caller is between two calls into the library: the last call has
\* returned and its result has been taken
Ready == pc = "idle" /\ ret.op = "none"

\* the caller takes the result of the call that returned and goes on
caller_proceeds ==
    /\ pc = "idle"
    /\ ret.op # "none"
    /\ ret' = NoRet
    /\ calls' = <<>>
    /\ UNCHANGED <<rt, domStatus, held, strFreed, pc, enum>>
    /\ UNCHANGED execVars

\* a panic unwinds out of the library call; the caller's thread ends
Panic(op, self, arg) ==
    /\ pc' = "panicked"
    /\ ret' = [op |-> op, kind |-> "panic", self |-> self, arg |-> arg]

Unused == {d \in DomPtrs : domStatus[d] = "unused"}
Issued == DomPtrs \ Unused
\* what a domain pointer points at: "null", or the runtime's "live" / "freed"
PtrState(d) == IF d = Null THEN "null" ELSE domStatus[d]
\* a domain pointer the runtime cannot dereference
Dangling(d) == PtrState(d) # "live"

\* ------------------------------------------------------------ jit.rs
Bools == {TRUE, FALSE}
VersionArgs == {[some |-> FALSE, s |-> <<>>]} \cup {[some |-> TRUE, s |-> v] : v \in Strs}

\* what mono_jit_init hands back: the root domain on the first start; a second
\* start, or one after shutdown, is outside the runtime's contract
mono_jit_init_results == IF rt = "Uninitialized" THEN {RootDomain} ELSE {Null, RootDomain}

\* jit::init(name, version).  The handle is built by Domain::create_from_ptr,
\* which domain.rs does not define; it is read as Domain::from_ptr.
jit_init(name, version) ==
    /\ Ready
    /\ IF ~CString_new(name).ok \/ (version.some /\ ~CString_new(version.s).ok)
       THEN /\ Panic("jit::init", Null, name)
            /\ calls' = <<>>
            /\ UNCHANGED <<rt, domStatus, held>>
       ELSE \E ptr \in mono_jit_init_results :
            /\ rt' = IF rt = "Uninitialized" THEN "Running" ELSE rt
            /\ domStatus' = IF rt = "Uninitialized"
                            THEN [domStatus EXCEPT ![RootDomain] = "live"]
                            ELSE domStatus
            /\ calls' = <<Call(IF version.some THEN "mono_jit_init_version"
                               ELSE "mono_jit_init", "none", Null),
                          [Call("mono_config_parse", "none", Null) EXCEPT !.rtAt = rt']>>
            /\ held' = held \cup {Domain_from_ptr(ptr).ptr}
            /\ ret' = [op |-> "jit::init", kind |-> "value", val |-> Domain_from_ptr(ptr).ptr]
            /\ pc' = pc
    /\ UNCHANGED <<strFreed, enum>>
    /\ UNCHANGED execVars

\* jit::cleanup(domain): the handle is moved in
jit_cleanup(d) ==
    /\ Ready
    /\ d \in held
    /\ calls' = <<Call("mono_jit_cleanup", PtrState(d), Null)>>
    /\ IF rt = "Running" /\ ~Dangling(d)
       THEN /\ rt' = "ShutDown"
            /\ domStatus' = [x \in DomPtrs |->
                                IF domStatus[x] = "unused" THEN "unused" ELSE "freed"]
       ELSE UNCHANGED <<rt, domStatus>>
    /\ held' = held \ {d}
    /\ ret' = [op |-> "jit::cleanup", kind |-> "unit"]
    /\ UNCHANGED <<strFreed, pc, enum>>
    /\ UNCHANGED execVars

\* --------------------------------------------------------- domain.rs
\* mono_domain_create: a fresh domain from a running runtime; anything, null
\* included, from one that is not running
mono_domain_create_results ==
    LET fresh == CHOOSE d \in Unused : \A e \in Unused : d <= e
    IN  IF rt = "Running" THEN {fresh} ELSE {Null, fresh}

\* Domain::create()
Domain_create ==
    /\ Ready
    /\ Unused # {}
    /\ \E ptr \in mono_domain_create_results :
        /\ domStatus' = IF ptr = Null THEN domStatus
                        ELSE [domStatus EXCEPT ![ptr] = "live"]
        /\ held' = held \cup {Domain_from_ptr(ptr).ptr}
        /\ ret' = [op |-> "Domain::create", kind |-> "value", val |-> Domain_from_ptr(ptr).ptr]
    /\ calls' = <<Call("mono_domain_create", "none", Null)>>
    /\ UNCHANGED <<rt, strFreed, pc, enum>>
    /\ UNCHANGED execVars

\* Domain::from_ptr(ptr), on null or on a pointer the runtime handed out
Domain_from_ptr_call(ptr) ==
    /\ Ready
    /\ ptr \in {Null} \cup Issued
    /\ held' = held \cup {Domain_from_ptr(ptr).ptr}
    /\ ret' = [op |-> "Domain::from_ptr", kind |-> "value", val |-> Domain_from_ptr(ptr).ptr]
    /\ calls' = <<>>
    /\ UNCHANGED <<rt, domStatus, strFreed, pc, enum>>
    /\ UNCHANGED execVars

\* what `drop(self)` leaves of the caller's handle: self is a reference, so
\* dropping it releases nothing and the handle stays with the caller
drop_self(handles, d) == handles

\* Domain::free(&self, force)
Domain_free(d, force) ==
    /\ Ready
    /\ d \in held
    /\ calls' = <<Call("mono_domain_free", PtrState(d), Null)>>
    /\ domStatus' = IF rt = "Running" /\ ~Dangling(d) /\ (force \/ d # RootDomain)
                    THEN [domStatus EXCEPT ![d] = "freed"]
                    ELSE domStatus
    /\ held' = drop_self(held, d)
    /\ ret' = [op |-> "Domain::free", kind |-> "unit", self |-> d]
    /\ UNCHANGED <<rt, strFreed, pc, enum>>
    /\ UNCHANGED execVars

\* Domain::assembly_open(&self, path)
Domain_assembly_open(d, path) ==
    /\ Ready
    /\ d \in held
    /\ IF ~CString_new(path).ok
       THEN /\ Panic("Domain::assembly_open", d, path)
            /\ calls' = <<>>
       ELSE /\ calls' = <<Call("mono_domain_assembly_open", PtrState(d), Null)>>
            /\ \E ptr \in IF rt = "Running" /\ ~Dangling(d)
                          THEN {mono_domain_assembly_open(CString_new(path).bytes)}
                          ELSE {Null, AssemblyPtr} :
                 ret' = [op |-> "Domain::assembly_open",
                         kind |-> IF ptr = Null THEN "none" ELSE "some",
                         self |-> d, val |-> ptr]
            /\ pc' = pc
    /\ UNCHANGED <<rt, domStatus, held, strFreed, enum>>
    /\ UNCHANGED execVars

\* Domain::set_config(&self, base_directory, filename)
Domain_set_config(d, base_directory, filename) ==
    /\ Ready
    /\ d \in held
    /\ IF ~CString_new(base_directory).ok \/ ~CString_new(filename).ok
       THEN /\ Panic("Domain::set_config", d, Null)
            /\ calls' = <<>>
       ELSE /\ calls' = <<Call("mono_domain_set_config", PtrState(d), Null)>>
            /\ ret' = [op |-> "Domain::set_config", kind |-> "unit", self |-> d]
            /\ pc' = pc
    /\ UNCHANGED <<rt, domStatus, held, strFreed, enum>>
    /\ UNCHANGED execVars

\* ------------------------------------------------------ jit.rs: exec
\* `let asm = dom.assembly_open(..).unwrap()`: the caller keeps the Assembly.
\* dom records the domain it was loaded into (Null when the pointer came
\* from a runtime that was not running or from a dangling domain).
caller_keeps_assembly ==
    /\ pc = "idle"
    /\ ret.op = "Domain::assembly_open" /\ ret.kind = "some"
    /\ asm' = [ptr |-> ret.val,
               dom |-> IF calls[1].rtAt = "Running" /\ calls[1].dom = "live"
                       THEN ret.self ELSE Null]
    /\ ret' = NoRet
    /\ calls' = <<>>
    /\ UNCHANGED <<rt, domStatus, held, strFreed, pc, enum, icalls, exec>>

\* add_internal_call!(signature, function): the runtime's table maps the
\* signature to the native function from now on
add_internal_call(signature) ==
    /\ Ready
    /\ rt = "Running"
    /\ signature \notin icalls
    /\ icalls' = icalls \cup {signature}
    /\ calls' = <<Call("mono_add_internal_call", "none", Null)>>
    /\ ret' = [op |-> "add_internal_call", kind |-> "unit", arg |-> signature]
    /\ UNCHANGED <<rt, domStatus, held, strFreed, pc, enum, asm, exec>>

\* `args.len() as i32`: the cast keeps every length up to i32::MAX, and the
\* lists here are no longer than MaxArgs
argc_of(args) == Len(args)

\* the loop of exec: one CString per argument, its pointer pushed on argv in
\* the order of args; ok is FALSE where CString::new(arg).unwrap() panics
argv_of(args) ==
    [ok   |-> \A i \in 1..Len(args) : CString_new(args[i]).ok,
     argv |-> [i \in 1..Len(args) |-> CString_new(args[i]).bytes]]

\* the assembly is loaded in a live domain of the running runtime
Loaded(a) == rt = "Running" /\ a.dom # Null /\ domStatus[a.dom] = "live"

\* jit::exec(domain, assembly, args) up to its call of mono_jit_exec; both
\* handles are moved in
jit_exec(d, args) ==
    /\ Ready
    /\ d \in held
    /\ asm.ptr # Null
    /\ IF ~argv_of(args).ok
       THEN /\ Panic("jit::exec", d, args)
            /\ calls' = <<>>
            /\ exec' = exec
       ELSE /\ pc' = "exec"
            /\ calls' = <<[fn |-> "mono_jit_exec", rtAt |-> rt, dom |-> PtrState(d),
                           cursor |-> Null, loaded |-> Loaded(asm),
                           argc |-> argc_of(args), argv |-> argv_of(args).argv]>>
            /\ exec' = [args |-> args, argc |-> argc_of(args),
                        argv |-> argv_of(args).argv, seen |-> <<>>, res |-> 0,
                        done |-> FALSE]
            /\ ret' = [op |-> "jit::exec", kind |-> "running", self |-> d, arg |-> args]
    /\ held' = held \ {d}
    /\ asm' = NoAsm
    /\ UNCHANGED <<rt, domStatus, strFreed, enum, icalls>>

\* the native function registered for PassArgCount: it observes its input
pass_arg_count(seen, input) == Append(seen, input)

\* mono_jit_exec runs the entry point of the assembly with the count and the
\* strings it was given; the entry point calls PassArgCount once with its
\* argument count.  A registered signature is served by the native function,
\* on the thread that is inside exec; an unregistered one ends the entry
\* point with an exception.  Outside the runtime's contract (runtime not
\* running, dangling domain, assembly not loaded) nothing is known of the run.
mono_jit_exec_runs ==
    /\ pc = "exec"
    /\ ~exec.done
    /\ IF calls[1].rtAt = "Running" /\ calls[1].dom = "live" /\ calls[1].loaded
       THEN exec' = IF PassArgCount \in icalls
                    THEN [exec EXCEPT !.seen = pass_arg_count(exec.seen, exec.argc),
                                      !.res = 0, !.done = TRUE]
                    ELSE [exec EXCEPT !.res = 1, !.done = TRUE]
       ELSE \E r \in {0, 1}, s \in {<<>>, <<exec.argc>>} :
                exec' = [exec EXCEPT !.seen = s, !.res = r, !.done = TRUE]
    /\ UNCHANGED <<rt, domStatus, held, strFreed, pc, enum, calls, ret, asm, icalls>>

\* mono_jit_exec has returned: exec drops the strings and returns the result
jit_exec_returns ==
    /\ pc = "exec"
    /\ exec.done
    /\ pc' = "idle"
    /\ ret' = [op |-> "jit::exec", kind |-> "value", self |-> ret.self,
               arg |-> exec.args, val |-> exec.res, seen |-> exec.seen]
    /\ exec' = NoExec
    /\ UNCHANGED <<rt, domStatus, held, strFreed, enum, calls, asm, icalls>>

\* the steps of a caller that runs an entry point: start-up and shutdown,
\* freeing a domain, an assembly, a registered callback, exec
NextExec ==
    \/ \E name \in Strs, version \in VersionArgs : jit_init(name, version)
    \/ \E d \in held : jit_cleanup(d)
    \/ \E d \in held, force \in Bools : Domain_free(d, force)
    \/ \E d \in held, path \in Strs : Domain_assembly_open(d, path)
    \/ caller_keeps_assembly
    \/ add_internal_call(PassArgCount)
    \/ \E d \in held, args \in ArgLists : jit_exec(d, args)
    \/ mono_jit_exec_runs
    \/ jit_exec_returns
    \/ caller_proceeds

SpecExec == Init /\ [][NextExec]_vars

\* ----------------------------------------------------------- class.rs
\* Class and ClassField handles denote metadata of the running runtime: the
\* accessors below are taken on the classes and fields of the loaded image
\* while the runtime runs.  (Calls into a runtime that is not running are
\* covered by the jit.rs and domain.rs operations.)
Reflecting == Ready /\ rt = "Running"

RefCall(fn) == <<Call(fn, "none", Null)>>
OptRet(op, self, arg, h) ==
    [op |-> op, kind |-> IF h.some THEN "some" ELSE "none",
     self |-> self, arg |-> arg, val |-> h.ptr]
ValRet(op, self, arg, v) ==
    [op |-> op, kind |-> "value", self |-> self, arg |-> arg, val |-> v]

\* Class::from_ptr(class_ptr)
Class_from_ptr_call(class_ptr) ==
    /\ Reflecting
    /\ class_ptr \in {Null} \cup Classes
    /\ ret' = OptRet("Class::from_ptr", Null, class_ptr, Class_from_ptr(class_ptr))
    /\ calls' = <<>>
    /\ UNCHANGED <<rt, domStatus, held, strFreed, pc, enum>>
    /\ UNCHANGED execVars

\* ClassField::from_ptr(cf_ptr)
ClassField_from_ptr_call(cf_ptr) ==
    /\ Reflecting
    /\ cf_ptr \in {Null} \cup AllFields
    /\ ret' = OptRet("ClassField::from_ptr", Null, cf_ptr, ClassField_from_ptr(cf_ptr))
    /\ calls' = <<>>
    /\ UNCHANGED <<rt, domStatus, held, strFreed, pc, enum>>
    /\ UNCHANGED execVars

\* the field-name strings of class c the runtime would read in a lookup
FreedFieldNames(c) ==
    {i \in 1..Len(FieldsOf(c)) : FieldNameStr(FieldsOf(c)[i]) \in strFreed}

\* Class::get_field_from_name(&self, name)
Class_get_field_from_name(self, name) ==
    /\ Reflecting
    /\ IF ~CString_new(name).ok
       THEN /\ Panic("Class::get_field_from_name", self, name)
            /\ calls' = <<>>
       ELSE /\ calls' = RefCall("mono_class_get_field_from_name")
            /\ \E ptr \in IF FreedFieldNames(self) = {}
                          THEN {mono_class_get_field_from_name(self, CString_new(name).bytes)}
                          ELSE {Null} \cup {FieldsOf(self)[i] : i \in 1..Len(FieldsOf(self))} :
                 ret' = OptRet("Class::get_field_from_name", self, name,
                               ClassField_from_ptr(ptr))
            /\ pc' = pc
    /\ UNCHANGED <<rt, domStatus, held, strFreed, enum>>
    /\ UNCHANGED execVars

\* What an accessor does with the CString it built over the runtime's
\* pointer once the copy is made: `let _ = cstr.into_raw()` hands the pointer
\* back untouched, `drop(cstr)` deallocates it.
Class_get_name_releases == FALSE
Class_get_namespace_releases == FALSE
ClassField_get_name_releases == TRUE

\* The shared body of the three name accessors:
\*   let cstr = CString::from_raw(ptr); let res = cstr.to_str().expect(..).to_owned();
\* A failed expect unwinds with cstr still owned, which drops it.  A pointer
\* that was deallocated before is read all the same: the bytes found there
\* are whatever the allocator left (the old text, or the empty string
\* CString's drop leaves behind), or the read faults.
read_name(op, self, id, releases) ==
    IF id \in strFreed
    THEN \E out \in {[ok |-> TRUE, s |-> StrBytes(id)], [ok |-> TRUE, s |-> <<>>],
                     [ok |-> FALSE, s |-> <<>>]} :
            /\ IF out.ok
               THEN ret' = ValRet(op, self, Null, out.s) /\ pc' = pc
               ELSE Panic(op, self, Null)
            /\ strFreed' = strFreed
    ELSE LET r == to_str(CString_from_raw(Append(StrBytes(id), 0)))
         IN  IF r.ok
             THEN /\ ret' = ValRet(op, self, Null, r.s)
                  /\ pc' = pc
                  /\ strFreed' = IF releases THEN strFreed \cup {id} ELSE strFreed
             ELSE /\ Panic(op, self, Null)
                  /\ strFreed' = strFreed \cup {id}

\* Class::get_name(&self)
Class_get_name(self) ==
    /\ Reflecting
    /\ calls' = RefCall("mono_class_get_name")
    /\ read_name("Class::get_name", self, ClassNameStr(self), Class_get_name_releases)
    /\ UNCHANGED <<rt, domStatus, held, enum>>
    /\ UNCHANGED execVars

\* Class::get_namespace(&self)
Class_get_namespace(self) ==
    /\ Reflecting
    /\ calls' = RefCall("mono_class_get_namespace")
    /\ read_name("Class::get_namespace", self, NamespaceStr(self),
                 Class_get_namespace_releases)
    /\ UNCHANGED <<rt, domStatus, held, enum>>
    /\ UNCHANGED execVars

\* ClassField::get_name(&self)
ClassField_get_name(self) ==
    /\ Reflecting
    /\ calls' = RefCall("mono_field_get_name")
    /\ read_name("ClassField::get_name", self, FieldNameStr(self),
                 ClassField_get_name_releases)
    /\ UNCHANGED <<rt, domStatus, held, enum>>
    /\ UNCHANGED execVars

\* Class::get_rank(&self): the runtime's answer, whatever the class is
Class_get_rank(self) ==
    /\ Reflecting
    /\ calls' = RefCall("mono_class_get_rank")
    /\ ret' = ValRet("Class::get_rank", self, Null, mono_class_get_rank(self))
    /\ UNCHANGED <<rt, domStatus, held, strFreed, pc, enum>>
    /\ UNCHANGED execVars

\* mono_class_get_element_class: the element type of an array class; for a
\* class that is no array the field it reads holds nothing the API defines
mono_class_get_element_class_results(c) ==
    IF IsArray(c) THEN {1} ELSE {Null, c}

\* Class::get_element_class(&self)
Class_get_element_class(self) ==
    /\ Reflecting
    /\ calls' = RefCall("mono_class_get_element_class")
    /\ \E ptr \in mono_class_get_element_class_results(self) :
        IF Class_from_ptr(ptr).some
        THEN /\ ret' = ValRet("Class::get_element_class", self, Null, ptr)
             /\ pc' = pc
        ELSE Panic("Class::get_element_class", self, Null)
    /\ UNCHANGED <<rt, domStatus, held, strFreed, enum>>
    /\ UNCHANGED execVars

\* the pair of class pointers each predicate hands to the runtime
implements_interface_args(self, iface) == <<self, iface>>
is_assignable_from_args(self, other) == <<self, self>>

\* Class::implements_interface(&self, iface)
Class_implements_interface(self, iface) ==
    /\ Reflecting
    /\ calls' = RefCall("mono_class_implements_interface")
    /\ LET a == implements_interface_args(self, iface)
       IN  ret' = ValRet("Class::implements_interface", self, iface,
                         mono_class_implements_interface(a[1], a[2]))
    /\ UNCHANGED <<rt, domStatus, held, strFreed, pc, enum>>
    /\ UNCHANGED execVars

\* Class::is_assignable_from(&self, other)
Class_is_assignable_from(self, other) ==
    /\ Reflecting
    /\ calls' = RefCall("mono_class_is_assignable_from")
    /\ LET a == is_assignable_from_args(self, other)
       IN  ret' = ValRet("Class::is_assignable_from", self, other,
                         mono_class_is_assignable_from(a[1], a[2]))
    /\ UNCHANGED <<rt, domStatus, held, strFreed, pc, enum>>
    /\ UNCHANGED execVars

\* a count accessor bound to the neighbouring foreign function
num_fields_of_methods(self) == mono_class_num_methods(self)
\* Class::num_fields / Class::num_methods as functions of the class
num_fields(self) == mono_class_num_fields(self)
num_methods(self) == mono_class_num_methods(self)

\* Class::num_fields(&self)
Class_num_fields(self) ==
    /\ Reflecting
    /\ calls' = RefCall("mono_class_num_fields")
    /\ ret' = ValRet("Class::num_fields", self, Null, num_fields(self))
    /\ UNCHANGED <<rt, domStatus, held, strFreed, pc, enum>>
    /\ UNCHANGED execVars

\* Class::num_methods(&self)
Class_num_methods(self) ==
    /\ Reflecting
    /\ calls' = RefCall("mono_class_num_methods")
    /\ ret' = ValRet("Class::num_methods", self, Null, num_methods(self))
    /\ UNCHANGED <<rt, domStatus, held, strFreed, pc, enum>>
    /\ UNCHANGED execVars

\* Class::from_name(image, namespace, name)
Class_from_name(image, namespace, name) ==
    /\ Reflecting
    /\ IF ~CString_new(namespace).ok \/ ~CString_new(name).ok
       THEN /\ Panic("Class::from_name", image, <<namespace, name>>)
            /\ calls' = <<>>
       ELSE /\ calls' = RefCall("mono_class_from_name")
            /\ ret' = OptRet("Class::from_name", image, <<namespace, name>>,
                             Class_from_ptr(mono_class_from_name(image,
                                 CString_new(namespace).bytes, CString_new(name).bytes)))
            /\ pc' = pc
    /\ UNCHANGED <<rt, domStatus, held, strFreed, enum>>
    /\ UNCHANGED execVars

\* what a name accessor returns for a runtime string that is still allocated
\* (the Ok of to_str; ok is FALSE where the accessor panics)
name_of(id) == to_str(CString_from_raw(Append(StrBytes(id), 0)))

Class_eq_self(a, b) == a.ptr = a.ptr

\* impl PartialEq for Class / for Domain: the wrapped pointers are compared
Class_eq(a, b) == a.ptr = b.ptr
Domain_eq(a, b) == a.ptr = b.ptr

\* `Class::from_ptr(p).unwrap() == Class::from_ptr(q).unwrap()`
Class_eq_call(p, q) ==
    /\ Reflecting
    /\ ret' = ValRet("Class::eq", p, q, Class_eq(Class_from_ptr(p), Class_from_ptr(q)))
    /\ calls' = <<>>
    /\ UNCHANGED <<rt, domStatus, held, strFreed, pc, enum>>
    /\ UNCHANGED execVars

\* Class::get_ptr(&self)
Class_get_ptr(self) ==
    /\ Reflecting
    /\ ret' = ValRet("Class::get_ptr", self, Null, Class_from_ptr(self).ptr)
    /\ calls' = <<>>
    /\ UNCHANGED <<rt, domStatus, held, strFreed, pc, enum>>
    /\ UNCHANGED execVars

\* `a == b` on two Domain handles the caller holds
Domain_eq_call(p, q) ==
    /\ Ready
    /\ p \in held /\ q \in held
    /\ ret' = ValRet("Domain::eq", p, q, Domain_eq(Domain_from_ptr(p), Domain_from_ptr(q)))
    /\ calls' = <<>>
    /\ UNCHANGED <<rt, domStatus, held, strFreed, pc, enum>>
    /\ UNCHANGED execVars

\* Domain::get_ptr(&self)
Domain_get_ptr(d) ==
    /\ Ready
    /\ d \in held
    /\ ret' = ValRet("Domain::get_ptr", d, Null, Domain_from_ptr(d).ptr)
    /\ calls' = <<>>
    /\ UNCHANGED <<rt, domStatus, held, strFreed, pc, enum>>
    /\ UNCHANGED execVars

\* ------------------------------------------- the enumerating accessors
EnumOps == {"get_fields", "get_methods", "get_nested_types", "get_interfaces"}
\* the collection the runtime walks for each accessor
ItemsOf(op, c) ==
    CASE op = "get_fields"       -> FieldsOf(c)
      [] op = "get_methods"      -> MethodsOf(c)
      [] op = "get_nested_types" -> NestedTypesOf(c)
      [] OTHER                   -> InterfacesOf(c)
NextFn(op) ==
    CASE op = "get_fields"       -> "mono_class_get_fields"
      [] op = "get_methods"      -> "mono_class_get_methods"
      [] op = "get_nested_types" -> "mono_class_get_nested_types"
      [] OTHER                   -> "mono_class_get_interfaces"

\* `let mut gptr = 0 as *mut c_void; let mut res = Vec::new();`
enum_locals(op, self) == [op |-> op, self |-> self, gptr |-> Null, res |-> <<>>]

EnterEnum(op, self) ==
    /\ Reflecting
    /\ enum' = enum_locals(op, self)
    /\ pc' = "enum"
    /\ calls' = <<>>
    /\ ret' = NoRet
    /\ UNCHANGED <<rt, domStatus, held, strFreed>>
    /\ UNCHANGED execVars

\* Class::get_fields(&self), get_methods, get_nested_types, get_interfaces
Class_get_fields(self) == EnterEnum("get_fields", self)
Class_get_methods(self) == EnterEnum("get_methods", self)
Class_get_nested_types(self) == EnterEnum("get_nested_types", self)
Class_get_interfaces(self) == EnterEnum("get_interfaces", self)

\* one turn of the accessor's while-let loop, and its return on exhaustion
enum_turn ==
    /\ pc = "enum"
    /\ LET t == while_let_turn(enum.op, ItemsOf(enum.op, enum.self), enum.gptr, enum.res)
       IN  /\ calls' = Append(calls, Call(NextFn(enum.op), "none", enum.gptr))
           /\ IF t.done
              THEN /\ ret' = ValRet(enum.op, enum.self, Null, t.res)
                   /\ enum' = NoEnum
                   /\ pc' = "idle"
              ELSE /\ enum' = [enum EXCEPT !.gptr = t.gptr, !.res = t.res]
                   /\ UNCHANGED <<pc, ret>>
    /\ UNCHANGED <<rt, domStatus, held, strFreed>>
    /\ UNCHANGED execVars

\* ------------------------------------------------------ specification
Next ==
    \/ \E name \in Strs, version \in VersionArgs : jit_init(name, version)
    \/ \E d \in held : jit_cleanup(d)
    \/ \E ptr \in {Null} \cup DomPtrs : Domain_from_ptr_call(ptr)
    \/ Domain_create
    \/ \E d \in held, force \in Bools : Domain_free(d, force)
    \/ \E d \in held, path \in Strs : Domain_assembly_open(d, path)
    \/ \E d \in held, b \in Strs, f \in Strs : Domain_set_config(d, b, f)
    \/ \E p \in {Null} \cup Classes : Class_from_ptr_call(p)
    \/ \E p \in {Null} \cup AllFields : ClassField_from_ptr_call(p)
    \/ \E c \in Classes, name \in FieldNameArgs : Class_get_field_from_name(c, name)
    \/ \E c \in Classes : Class_get_name(c)
    \/ \E c \in Classes : Class_get_namespace(c)
    \/ \E f \in AllFields : ClassField_get_name(f)
    \/ \E c \in Classes : Class_get_rank(c)
    \/ \E c \in Classes : Class_get_element_class(c)
    \/ \E c \in Classes, i \in Classes : Class_implements_interface(c, i)
    \/ \E c \in Classes, o \in Classes : Class_is_assignable_from(c, o)
    \/ \E c \in Classes : Class_num_fields(c)
    \/ \E c \in Classes : Class_num_methods(c)
    \/ \E c \in Classes : Class_get_fields(c)
    \/ \E c \in Classes : Class_get_methods(c)
    \/ \E c \in Classes : Class_get_nested_types(c)
    \/ \E c \in Classes : Class_get_interfaces(c)
    \/ enum_turn
    \/ caller_proceeds
    \/ \E ns \in NamespaceArgs, name \in ClassNameArgs : Class_from_name(ImagePtr, ns, name)
    \/ \E p \in Classes, q \in Classes : Class_eq_call(p, q)
    \/ \E c \in Classes : Class_get_ptr(c)
    \/ \E p \in held, q \in held : Domain_eq_call(p, q)
    \/ \E d \in held : Domain_get_ptr(d)

Spec == Init /\ [][Next]_vars

\* ------------------------------------------------------------- claims
InitCalls == {"mono_jit_init", "mono_jit_init_version"}
DomainUses == {"mono_domain_assembly_open", "mono_domain_set_config"}
NameOps == {"Class::get_name", "Class::get_namespace", "ClassField::get_name"}
\* the runtime string a name accessor reads for the handle it was called on
NameStrOf(op, self) ==
    CASE op = "Class::get_name"      -> ClassNameStr(self)
      [] op = "Class::get_namespace" -> NamespaceStr(self)
      [] OTHER                       -> FieldNameStr(self)

\* C1: no handle the caller holds wraps a null pointer: from_ptr of a null
\* pointer gives absence for Class and ClassField, and no Domain handle
\* returned by Domain::from_ptr or Domain::create holds null.
C1_NoNullHandle ==
    /\ ret.op \in {"Domain::from_ptr", "Domain::create"} =>
         (ret.val # Null /\ Null \notin held)
    /\ ret.op \in {"Class::from_ptr", "ClassField::from_ptr"} =>
         (ret.kind = "some") = (ret.arg # Null)

\* C2: the runtime is started once and shut down once: every init call that
\* reaches the foreign runtime finds it Uninitialized, and no foreign call at
\* all reaches a runtime that has been shut down.
C2_LifecycleEnforced ==
    \A i \in 1..Len(calls) :
        /\ calls[i].fn \in InitCalls => calls[i].rtAt = "Uninitialized"
        /\ calls[i].rtAt # "ShutDown"

\* C3: once a domain has been freed, no foreign call is issued with its
\* pointer: a later assembly_open or set_config on it is rejected with a
\* UseAfterFree error instead.
C3_NoUseAfterFree ==
    /\ \A i \in 1..Len(calls) :
          calls[i].fn \in DomainUses => calls[i].dom # "freed"
    /\ (ret.op \in {"Domain::assembly_open", "Domain::set_config"}
          /\ PtrState(ret.self) = "freed") => ret.kind = "UseAfterFree"

\* the cursors passed to the first n next-item calls: null, then each time
\* the cursor the call before left behind
CursorsInOrder(op, n) ==
    /\ Len(calls) = n
    /\ \A i \in 1..n : calls[i].fn = NextFn(op) /\ calls[i].cursor = i - 1

\* C4: an enumerating accessor starts from a null cursor, passes the cursor
\* on from call to call until the runtime signals exhaustion, and returns
\* exactly the runtime's items in the runtime's order, each once; while it
\* runs it holds the items handed out so far, in order.
C4_EnumerationExact ==
    /\ pc = "enum" =>
         /\ enum.res = SubSeq(ItemsOf(enum.op, enum.self), 1, enum.gptr)
         /\ CursorsInOrder(enum.op, enum.gptr)
    /\ (pc = "idle" /\ ret.op \in EnumOps) =>
         /\ ret.val = ItemsOf(ret.op, ret.self)
         /\ CursorsInOrder(ret.op, Len(ret.val) + 1)

\* C4 witness: get_fields has returned on a class with two or more fields
C4_Witness ==
    pc = "idle" /\ ret.op = "get_fields" /\ Len(ret.val) >= 2

\* C5: is_assignable_from(self, other) is the runtime's assignability check
\* for the pair (self, other).
C5_AssignableForwards ==
    ret.op = "Class::is_assignable_from" =>
        ret.val = mono_class_is_assignable_from(ret.self, ret.arg)

\* C6: a name accessor that returns leaves every runtime-owned string
\* allocated, and what it returns is the runtime's name.
C6_NamesNeverReleased ==
    pc # "panicked" =>
        /\ strFreed = {}
        /\ ret.op \in NameOps => ret.val = StrBytes(NameStrOf(ret.op, ret.self))

\* C7: a name accessor whose foreign string is not valid UTF-8 returns a
\* MarshalError to its caller; it does not panic.
C7_InvalidUtf8IsMarshalError ==
    (ret.op \in NameOps /\ ~ValidUtf8(StrBytes(NameStrOf(ret.op, ret.self)))) =>
        (ret.kind = "MarshalError" /\ pc # "panicked")

\* C8: get_rank and get_element_class on a class that is no array give a
\* checked error and issue no foreign call; on an array class
\* get_element_class succeeds and get_rank is at least 1.
C8_ArrayOpsChecked ==
    ret.op \in {"Class::get_rank", "Class::get_element_class"} =>
        IF IsArray(ret.self)
        THEN /\ ret.kind = "value"
             /\ ret.op = "Class::get_rank" => ret.val >= 1
        ELSE ret.kind = "error" /\ calls = <<>>

\* name is the name of no field of class c
NamesNoField(c, name) ==
    \A i \in 1..Len(FieldsOf(c)) : FieldNameBytes(FieldsOf(c)[i]) # name

\* C9: get_field_from_name with a name that names no field of the class
\* returns absence: no panic, no error, no handle.
C9_MissingFieldIsNone ==
    (ret.op = "Class::get_field_from_name" /\ NamesNoField(ret.self, ret.arg)) =>
        (ret.kind = "none" /\ pc # "panicked")

RECURSIVE enumerate(_, _, _, _)
\* the accessor's loop run to its return
enumerate(op, items, gptr, res) ==
    LET t == while_let_turn(op, items, gptr, res)
    IN  IF t.done THEN t.res ELSE enumerate(op, items, t.gptr, t.res)

\* C10: what get_fields returns is as long as num_fields says, and what
\* get_methods returns is as long as num_methods says, for every class and
\* whichever of the two is asked.
C10_CountsMatch ==
    /\ (pc = "idle" /\ ret.op = "get_fields") => Len(ret.val) = num_fields(ret.self)
    /\ (pc = "idle" /\ ret.op = "get_methods") => Len(ret.val) = num_methods(ret.self)
    /\ ret.op = "Class::num_fields" =>
         ret.val = Len(enumerate("get_fields", FieldsOf(ret.self), Null, <<>>))
    /\ ret.op = "Class::num_methods" =>
         ret.val = Len(enumerate("get_methods", MethodsOf(ret.self), Null, <<>>))

\* C10 witness: get_methods has returned two methods or more
C10_Witness ==
    pc = "idle" /\ ret.op = "get_methods" /\ Len(ret.val) >= 2

\* C11: enumerating an empty runtime collection ends with the first
\* next-item call (no second call is ever made) and returns the empty
\* sequence as a plain value, not an error and not a panic.
C11_EmptyEnumeration ==
    /\ (pc = "enum" /\ ItemsOf(enum.op, enum.self) = <<>>) =>
         (calls = <<>> /\ enum.res = <<>>)
    /\ (pc = "idle" /\ ret.op \in EnumOps /\ ItemsOf(ret.op, ret.self) = <<>>) =>
         (ret.kind = "value" /\ ret.val = <<>> /\ Len(calls) = 1
            /\ calls[1].cursor = Null)
    /\ ret.op \in EnumOps => pc # "panicked"

\* C11 witness: get_fields has returned on a class with no fields
C11_Witness ==
    /\ pc = "idle" /\ ret.op = "get_fields"
    /\ FieldsOf(ret.self) = <<>> /\ ret.val = <<>>

\* the (namespace, name) pair names a class of the loaded image
Present(nspace, name) ==
    \E c \in Classes : NamespaceBytes(c) = nspace /\ ClassNameBytes(c) = name

\* C13: from_name on a pair present in the image returns a class whose
\* get_name and get_namespace give the same two strings back; on a pair that
\* is not present it returns absence.
C13_LookupRoundTrip ==
    ret.op = "Class::from_name" =>
        IF Present(ret.arg[1], ret.arg[2])
        THEN /\ ret.kind = "some"
             /\ name_of(ClassNameStr(ret.val)) = [ok |-> TRUE, s |-> ret.arg[2]]
             /\ name_of(NamespaceStr(ret.val)) = [ok |-> TRUE, s |-> ret.arg[1]]
        ELSE ret.kind = "none" /\ pc # "panicked"

GetPtrOps == {"Class::get_ptr", "Domain::get_ptr"}

\* C14: two handles made from non-null pointers p and q are equal exactly
\* when p = q, for Class and for Domain; get_ptr returns the pointer the
\* handle wraps, makes no foreign call and changes no state.
C14_EqualityIsIdentity ==
    /\ [](/\ (ret.op \in {"Class::eq", "Domain::eq"} /\ ret.self # Null /\ ret.arg # Null)
               => (ret.val <=> ret.self = ret.arg)
          /\ ret.op \in GetPtrOps => (ret.kind = "value" /\ ret.val = ret.self /\ calls = <<>>))
    /\ [][(ret.op = "none" /\ ret'.op \in GetPtrOps)
              => UNCHANGED <<rt, domStatus, held, strFreed, pc, enum, asm, icalls, exec>>]_vars

\* C14 witness: two different non-null Domain handles have been compared
C14_Witness ==
    /\ ret.op = "Domain::eq" /\ ret.self # Null /\ ret.arg # Null
    /\ ret.self # ret.arg /\ ret.val = FALSE

\* C12: exec hands the entry point as many arguments as args has, in the
\* order of args, for every argument list; a callback registered for the
\* method the entry point calls once with its argument count has run exactly
\* once by the time exec returns, and has seen that count.
C12_ExecPassesArgs ==
    /\ ret.op = "jit::exec" => ret.kind # "panic"
    /\ (ret.op = "jit::exec" /\ ret.kind # "panic") =>
           (calls[1].argc = Len(ret.arg) /\ calls[1].argv = ret.arg)
    /\ (/\ ret.op = "jit::exec" /\ ret.kind = "value"
        /\ calls[1].rtAt = "Running" /\ calls[1].dom = "live" /\ calls[1].loaded
        /\ PassArgCount \in icalls) =>
           ret.seen = <<Len(ret.arg)>>

====
